---- MODULE Spec2Model ----
(***************************************************************************)
(* DesktopManager (src/lib/world/DesktopManager.ts): the registry that     *)
(* maps "activityId|desktopId|screenName" keys to Desktop objects, creates *)
(* them lazily in getDesktop and destroys them when updateActivities,      *)
(* updateDesktops or updateScreens finds that the host (Workspace) has     *)
(* dropped an activity, a virtual desktop or a screen.                     *)
(***************************************************************************)
EXTENDS Integers, Sequences, FiniteSets, TLC

----------------------------------------------------------------------------
(* Bounds of the model *)

\* Desktop objects constructed (new Desktop(...)) in one behaviour
MaxDesktops == 2

\* destroy() invocations one Desktop object may receive before the
\* full-teardown operation is no longer explored
MaxDestroyCalls == 2

----------------------------------------------------------------------------
(* The host's values.  An activity is a string.  A KwinDesktop and an      *)
(* Output are objects: `ref` is the object's identity (what a JavaScript   *)
(* Set compares), `id` / `name` the field the key is built from.  The host *)
(* can present a new object that carries the id or name of an old one.     *)

ActivityIds == {"a", "b"}

KwinDesktopObjects ==
    { [ref |-> 1, id |-> "1"], [ref |-> 2, id |-> "1"], [ref |-> 3, id |-> "2"] }

OutputObjects ==
    { [ref |-> 1, name |-> "S"], [ref |-> 2, name |-> "S"], [ref |-> 3, name |-> "T"] }

DesktopIds == { d.id : d \in KwinDesktopObjects }
FilteredDesktopIds == {"1"}
ScreenNames == { s.name : s \in OutputObjects }

\* The sets Workspace.desktops / Workspace.screens can hold: the host never
\* lists two desktops with one id, nor two outputs with one name.
HostDesktopSets ==
    { D \in SUBSET KwinDesktopObjects : \A x, y \in D : x.id = y.id => x = y }
HostScreenSets ==
    { S \in SUBSET OutputObjects : \A x, y \in S : x.name = y.name => x = y }
HostActivitySets == SUBSET ActivityIds

----------------------------------------------------------------------------
VARIABLES
    desktops,            \* this.desktops: key -> index of the Desktop object
    kwinActivities,      \* this.kwinActivities
    kwinDesktops,        \* this.kwinDesktops
    kwinScreens,         \* this.kwinScreens
    objects,             \* every Desktop constructed so far, in order:
                         \*   coord: the (activity, desktop id, screen name) it
                         \*          was constructed for
                         \*   destroyCalls: how often its destroy() has run
    last,                \* the operation that ran last: << name, arguments, result >>
    generator            \* the generator object a caller is consuming (see below)

vars == << desktops, kwinActivities, kwinDesktops, kwinScreens, objects, last, generator >>

LastOp == last[1]
LastArgs == last[2]
LastResult == last[3]

\* `undefined` as a result of getDesktop
Undefined == 0

NoArgs == << >>

EmptyMap == [k \in {} |-> Undefined]

Range(seq) == { seq[i] : i \in DOMAIN seq }

\* The sequences that list every element of S once
RECURSIVE Orders(_)
Orders(S) ==
    IF S = {} THEN { << >> }
    ELSE UNION { { << x >> \o o : o \in Orders(S \ {x}) } : x \in S }

----------------------------------------------------------------------------
(* The methods, as functions of the object's state `this`:                 *)
(*   this.desktops, this.kwinActivities, this.kwinDesktops,                *)
(*   this.kwinScreens, and this.objects (the Desktop objects on the heap)  *)

getDesktopKey(activity, kwinDesktop, screen) ==
    activity \o "|" \o kwinDesktop.id \o "|" \o screen.name

\* this.desktopFilter.shouldWorkOnDesktop: the filter works on desktop "1"
\* and rejects desktop "2"
shouldWorkOnDesktop(kwinDesktop) == kwinDesktop.id \in FilteredDesktopIds

\* Map.prototype.set / delete on this.desktops
MapSet(m, key, v) ==
    [k \in (DOMAIN m) \cup {key} |-> IF k = key THEN v ELSE m[k]]
MapDelete(m, key) == [k \in (DOMAIN m) \ {key} |-> m[k]]

\* desktop.destroy() on the Desktop object with index i
DesktopDestroy(objs, i) ==
    [objs EXCEPT ![i].destroyCalls = objs[i].destroyCalls + 1]

\* addDesktop that registers the new Desktop in a new Map
addDesktopInNewMap(this, activity, kwinDesktop, screen) ==
    LET desktopKey == getDesktopKey(activity, kwinDesktop, screen)
        desktop == Len(this.objects) + 1
    IN  [ this |-> [ this EXCEPT
                       !.objects = Append(this.objects,
                           [ coord |-> << activity, kwinDesktop.id, screen.name >>,
                             destroyCalls |-> 0 ]),
                       !.desktops = MapSet(EmptyMap, desktopKey, desktop) ],
          result |-> desktop ]

addDesktop(this, activity, kwinDesktop, screen) ==
    LET desktopKey == getDesktopKey(activity, kwinDesktop, screen)
        desktop == Len(this.objects) + 1
    IN  [ this |-> [ this EXCEPT
                       !.objects = Append(this.objects,
                           [ coord |-> << activity, kwinDesktop.id, screen.name >>,
                             destroyCalls |-> 0 ]),
                       !.desktops = MapSet(this.desktops, desktopKey, desktop) ],
          result |-> desktop ]

\* getDesktop without the lookup in this.desktops: every call constructs
getDesktopWithoutLookup(this, activity, kwinDesktop, screen) ==
    IF ~shouldWorkOnDesktop(kwinDesktop)
    THEN [this |-> this, result |-> Undefined]
    ELSE addDesktop(this, activity, kwinDesktop, screen)

\* getDesktop without the question to the filter
getDesktopWithoutFilter(this, activity, kwinDesktop, screen) ==
    LET desktopKey == getDesktopKey(activity, kwinDesktop, screen)
    IN  IF desktopKey \in DOMAIN this.desktops
        THEN [this |-> this, result |-> this.desktops[desktopKey]]
        ELSE addDesktop(this, activity, kwinDesktop, screen)

getDesktop(this, activity, kwinDesktop, screen) ==
    IF ~shouldWorkOnDesktop(kwinDesktop)
    THEN [this |-> this, result |-> Undefined]
    ELSE LET desktopKey == getDesktopKey(activity, kwinDesktop, screen)
         IN  IF desktopKey \in DOMAIN this.desktops
             THEN [this |-> this, result |-> this.desktops[desktopKey]]
             ELSE addDesktop(this, activity, kwinDesktop, screen)

\* getDesktopForClient that only asks for a first activity and a first desktop
getDesktopForClientFirstOfMany(this, kwinClient) ==
    IF Len(kwinClient.activities) < 1 \/ Len(kwinClient.desktops) < 1
    THEN [this |-> this, result |-> Undefined]
    ELSE getDesktop(this, kwinClient.activities[1], kwinClient.desktops[1],
                    kwinClient.output)

\* kwinClient: [activities, desktops: arrays; output]
getDesktopForClient(this, kwinClient) ==
    IF Len(kwinClient.activities) # 1 \/ Len(kwinClient.desktops) # 1
    THEN [this |-> this, result |-> Undefined]
    ELSE getDesktop(this, kwinClient.activities[1], kwinClient.desktops[1],
                    kwinClient.output)

\* destroyDesktop without this.desktops.delete(desktopKey)
destroyDesktopKeepingKey(this, activity, kwinDesktop, screen) ==
    LET desktopKey == getDesktopKey(activity, kwinDesktop, screen)
    IN  IF desktopKey \in DOMAIN this.desktops
        THEN [ this EXCEPT
                 !.objects = DesktopDestroy(this.objects, this.desktops[desktopKey]) ]
        ELSE this

destroyDesktop(this, activity, kwinDesktop, screen) ==
    LET desktopKey == getDesktopKey(activity, kwinDesktop, screen)
    IN  IF desktopKey \in DOMAIN this.desktops
        THEN [ this EXCEPT
                 !.objects = DesktopDestroy(this.objects, this.desktops[desktopKey]),
                 !.desktops = MapDelete(this.desktops, desktopKey) ]
        ELSE this

\* destroyDesktop for every triple of T, one after the other: the nested
\* for-loops of removeActivity / removeKwinDesktop / removeScreen
RECURSIVE DestroyEach(_, _)
DestroyEach(this, T) ==
    IF T = {} THEN this
    ELSE LET t == CHOOSE x \in T : TRUE
         IN  DestroyEach(destroyDesktop(this, t[1], t[2], t[3]), T \ {t})

removeActivity(this, activity) ==
    DestroyEach(this, { << activity, kwinDesktop, screen >> :
                          kwinDesktop \in this.kwinDesktops, screen \in this.kwinScreens })

removeKwinDesktop(this, kwinDesktop) ==
    DestroyEach(this, { << activity, kwinDesktop, screen >> :
                          activity \in this.kwinActivities, screen \in this.kwinScreens })

removeScreen(this, screen) ==
    DestroyEach(this, { << activity, kwinDesktop, screen >> :
                          activity \in this.kwinActivities,
                          kwinDesktop \in this.kwinDesktops })

\* The for-loops of the update methods over the old snapshot
RECURSIVE RemoveActivities(_, _)
RemoveActivities(this, A) ==
    IF A = {} THEN this
    ELSE LET activity == CHOOSE x \in A : TRUE
         IN  RemoveActivities(removeActivity(this, activity), A \ {activity})

RECURSIVE RemoveKwinDesktops(_, _)
RemoveKwinDesktops(this, D) ==
    IF D = {} THEN this
    ELSE LET kwinDesktop == CHOOSE x \in D : TRUE
         IN  RemoveKwinDesktops(removeKwinDesktop(this, kwinDesktop), D \ {kwinDesktop})

RECURSIVE RemoveScreens(_, _)
RemoveScreens(this, S) ==
    IF S = {} THEN this
    ELSE LET screen == CHOOSE x \in S : TRUE
         IN  RemoveScreens(removeScreen(this, screen), S \ {screen})

\* updateActivities that returns after the first activity it removes, taking
\* only that one out of the snapshot
updateActivitiesOneRemoval(this, workspaceActivities) ==
    LET newActivities == workspaceActivities
        removed == { activity \in this.kwinActivities : activity \notin newActivities }
    IN  IF removed = {} THEN [ this EXCEPT !.kwinActivities = newActivities ]
        ELSE LET activity == CHOOSE x \in removed : TRUE
             IN  [ removeActivity(this, activity) EXCEPT
                     !.kwinActivities = (this.kwinActivities \ {activity})
                                          \cup newActivities ]

\* updateActivities() when Workspace.activities holds workspaceActivities
updateActivities(this, workspaceActivities) ==
    LET newActivities == workspaceActivities
        removed == { activity \in this.kwinActivities : activity \notin newActivities }
    IN  [ RemoveActivities(this, removed) EXCEPT !.kwinActivities = newActivities ]

\* updateDesktops that takes the removed desktops out of the snapshot and
\* does not put in the ones the host has added
updateDesktopsOnlyRemoving(this, workspaceDesktops) ==
    LET newDesktops == workspaceDesktops
        removed == { desktop \in this.kwinDesktops : desktop \notin newDesktops }
    IN  [ RemoveKwinDesktops(this, removed) EXCEPT
            !.kwinDesktops = this.kwinDesktops \ removed ]

\* updateDesktops() when Workspace.desktops holds workspaceDesktops
updateDesktops(this, workspaceDesktops) ==
    LET newDesktops == workspaceDesktops
        removed == { desktop \in this.kwinDesktops : desktop \notin newDesktops }
    IN  [ RemoveKwinDesktops(this, removed) EXCEPT !.kwinDesktops = newDesktops ]

\* updateScreens() when Workspace.screens holds workspaceScreens
updateScreens(this, workspaceScreens) ==
    LET newScreens == workspaceScreens
        removed == { screen \in this.kwinScreens : screen \notin newScreens }
    IN  [ RemoveScreens(this, removed) EXCEPT !.kwinScreens = newScreens ]

\* destroy(): desktop.destroy() for every value of this.desktops
RECURSIVE DestroyValues(_, _)
DestroyValues(this, K) ==
    IF K = {} THEN this
    ELSE LET k == CHOOSE x \in K : TRUE
         IN  DestroyValues(
               [this EXCEPT !.objects = DesktopDestroy(this.objects, this.desktops[k])],
               K \ {k})

destroy(this) == DestroyValues(this, DOMAIN this.desktops)

\* The for-loop over this.kwinScreens in getDesktops: the Desktop objects it
\* yields for one matchedActivity and one matchedDesktop
RECURSIVE ScreensLoop(_, _, _, _)
ScreensLoop(this, matchedActivity, matchedDesktop, screens) ==
    IF screens = << >> THEN << >>
    ELSE LET desktopKey == getDesktopKey(matchedActivity, matchedDesktop, Head(screens))
             rest == ScreensLoop(this, matchedActivity, matchedDesktop, Tail(screens))
         IN  IF desktopKey \in DOMAIN this.desktops
             THEN << this.desktops[desktopKey] >> \o rest
             ELSE rest

\* The for-loop over matchedDesktops for one matchedActivity
RECURSIVE DesktopsLoop(_, _, _, _)
DesktopsLoop(this, matchedActivity, matchedDesktops, screens) ==
    IF matchedDesktops = << >> THEN << >>
    ELSE ScreensLoop(this, matchedActivity, Head(matchedDesktops), screens)
         \o DesktopsLoop(this, matchedActivity, Tail(matchedDesktops), screens)

\* The for-loop over matchedActivities.  matchedDesktops is what the inner
\* for-of will iterate: `rewinds` says whether it starts again for every
\* activity (an array) or is an iterator (this.kwinDesktops.keys()), which
\* the first inner loop leaves exhausted.
RECURSIVE ActivitiesLoop(_, _, _, _, _)
ActivitiesLoop(this, matchedActivities, matchedDesktops, rewinds, screens) ==
    IF matchedActivities = << >> THEN << >>
    ELSE DesktopsLoop(this, Head(matchedActivities), matchedDesktops, screens)
         \o ActivitiesLoop(this, Tail(matchedActivities),
                           IF rewinds THEN matchedDesktops ELSE << >>,
                           rewinds, screens)

\* getDesktops(activities, kwinDesktops), run to its end: the sequence of
\* Desktop objects it yields.  order.activities, order.desktops and
\* order.screens are the insertion orders of the three Sets (the first two
\* are read only when the array given is empty).
getDesktops(this, activities, kwinDesktopsArg, order) ==
    LET matchedActivities == IF Len(activities) > 0 THEN activities ELSE order.activities
        matchedDesktops == IF Len(kwinDesktopsArg) > 0 THEN kwinDesktopsArg ELSE order.desktops
    IN  ActivitiesLoop(this, matchedActivities, matchedDesktops,
                       Len(kwinDesktopsArg) > 0, order.screens)

----------------------------------------------------------------------------
(* Generator objects.  getAllDesktops, getDesktopsOnCurrentDesktopAndActivity *)
(* and getDesktops are generator functions: the call runs nothing of the    *)
(* body, every next() runs it up to the next yield or to its end, and the   *)
(* caller may run other operations between two next().  A generator object  *)
(* is the suspended body:                                                   *)
(*   kind     the generator function                                        *)
(*   pairs    (the loops over this.kwinScreens) the (activity, desktop)     *)
(*            pairs the outer loops have still to go through, the first one *)
(*            being the pair the screens loop is running for.  The arrays   *)
(*            and the iterators of the outer loops are fixed when the body  *)
(*            starts (a Set is never changed, only replaced), so the pairs  *)
(*            are known from then on.                                       *)
(*   screens  what the running for-of over this.kwinScreens has still to    *)
(*            visit; every screens loop reads this.kwinScreens when it      *)
(*            starts                                                        *)
(*   index    (getAllDesktops) the position of the iterator                 *)
(*            this.desktops.values(): the Desktop it visited last.  A Map   *)
(*            iterates in insertion order and its iterator is live: it      *)
(*            passes over deleted entries and reaches entries added behind  *)
(*            it.  Every set() of this.desktops inserts a Desktop just      *)
(*            constructed, so insertion order is construction order.        *)
(*   done     the body has returned                                         *)

NoGenerator ==
    [ kind |-> "none", pairs |-> << >>, screens |-> << >>, index |-> 0, done |-> TRUE ]

\* The (matchedActivity, matchedDesktop) pairs in the order of the two outer
\* for-of loops of getDesktops; `rewinds` as in ActivitiesLoop
RECURSIVE MatchedPairs(_, _, _)
MatchedPairs(matchedActivities, matchedDesktops, rewinds) ==
    IF matchedActivities = << >> THEN << >>
    ELSE [ i \in 1..Len(matchedDesktops) |->
             << Head(matchedActivities), matchedDesktops[i] >> ]
         \o MatchedPairs(Tail(matchedActivities),
                         IF rewinds THEN matchedDesktops ELSE << >>, rewinds)

\* The lookup of the loops done with this.getDesktop, which constructs
DesktopAtCreating(this, activity, kwinDesktop, screen) ==
    getDesktop(this, activity, kwinDesktop, screen)

\* const desktopKey = DesktopManager.getDesktopKey(...);
\* const desktop = this.desktops.get(desktopKey);
DesktopAt(this, activity, kwinDesktop, screen) ==
    LET desktopKey == getDesktopKey(activity, kwinDesktop, screen)
    IN  [ this |-> this,
          result |-> IF desktopKey \in DOMAIN this.desktops
                     THEN this.desktops[desktopKey] ELSE Undefined ]

Yielding(this, gen, desktop) ==
    [ this |-> this, generator |-> gen, result |-> desktop ]

Returning(this, gen) ==
    [ this |-> this,
      generator |-> [gen EXCEPT !.done = TRUE, !.pairs = << >>, !.screens = << >>],
      result |-> Undefined ]

\* One next() of a generator that is inside the loops over this.kwinScreens
\* (getDesktopsOnCurrentDesktopAndActivity, getDesktops): up to the next
\* yield or to the end.  `screens` is the order in which this.kwinScreens
\* iterates.
RECURSIVE ResumeLoops(_, _, _)
ResumeLoops(this, gen, screens) ==
    IF gen.pairs = << >> THEN Returning(this, gen)
    ELSE IF gen.screens = << >>
    THEN \* the screens loop has ended: on to the next pair and its screens loop
         ResumeLoops(this,
                     [gen EXCEPT !.pairs = Tail(gen.pairs),
                                 !.screens = IF Len(gen.pairs) > 1 THEN screens ELSE << >>],
                     screens)
    ELSE LET pair == Head(gen.pairs)
             r == DesktopAt(this, pair[1], pair[2], Head(gen.screens))
             after == [gen EXCEPT !.screens = Tail(gen.screens)]
         IN  IF r.result # Undefined
             THEN Yielding(r.this, after, r.result)
             ELSE ResumeLoops(r.this, after, screens)

\* The body from its start, for the pairs the outer loops go through
StartLoops(this, kind, pairs, screens) ==
    ResumeLoops(this,
                [ NoGenerator EXCEPT !.kind = kind, !.done = FALSE, !.pairs = pairs,
                                     !.screens = IF pairs # << >> THEN screens ELSE << >> ],
                screens)

\* getDesktopsOnCurrentDesktopAndActivity that leaves the screens loop after
\* the first screen
getDesktopsOnCurrentDesktopAndActivityFirstScreen(this, workspace, screens) ==
    LET activity == workspace.currentActivity
        kwinDesktop == workspace.currentDesktop
    IN  StartLoops(this, "getDesktopsOnCurrentDesktopAndActivity",
                   << << activity, kwinDesktop >> >>,
                   IF screens = << >> THEN << >> ELSE << Head(screens) >>)

\* The first next() of getDesktopsOnCurrentDesktopAndActivity() when
\* Workspace.currentActivity and Workspace.currentDesktop are as in workspace
getDesktopsOnCurrentDesktopAndActivityStart(this, workspace, screens) ==
    LET activity == workspace.currentActivity
        kwinDesktop == workspace.currentDesktop
    IN  StartLoops(this, "getDesktopsOnCurrentDesktopAndActivity",
                   << << activity, kwinDesktop >> >>, screens)

\* The first next() of getDesktops(activities, kwinDesktops); order as in
\* getDesktops above
getDesktopsStart(this, activities, kwinDesktopsArg, order) ==
    LET matchedActivities == IF Len(activities) > 0 THEN activities ELSE order.activities
        matchedDesktops == IF Len(kwinDesktopsArg) > 0 THEN kwinDesktopsArg ELSE order.desktops
    IN  StartLoops(this, "getDesktops",
                   MatchedPairs(matchedActivities, matchedDesktops, Len(kwinDesktopsArg) > 0),
                   order.screens)

\* The first next() of getDesktopsForClient(kwinClient)
getDesktopsForClientStart(this, kwinClient, order) ==
    getDesktopsStart(this, kwinClient.activities, kwinClient.desktops, order)

\* getAllDesktops over a copy of the values taken when the body started:
\* every Desktop constructed by then, in order
ResumeAllDesktopsOfACopy(this, gen) ==
    IF gen.index >= Len(this.objects) THEN Returning(this, gen)
    ELSE Yielding(this, [gen EXCEPT !.index = gen.index + 1], gen.index + 1)

\* One next() of getAllDesktops()
ResumeAllDesktops(this, gen) ==
    LET later == { this.desktops[k] : k \in DOMAIN this.desktops } \ (0..gen.index)
    IN  IF later = {} THEN Returning(this, gen)
        ELSE LET desktop == CHOOSE i \in later : \A j \in later : i <= j
             IN  Yielding(this, [gen EXCEPT !.index = desktop], desktop)

\* The first next() of getAllDesktops()
getAllDesktopsStart(this) ==
    ResumeAllDesktops(this, [NoGenerator EXCEPT !.kind = "getAllDesktops", !.done = FALSE])

\* One more next() of the generator gen
Resume(this, gen, screens) ==
    IF gen.kind = "getAllDesktops" THEN ResumeAllDesktops(this, gen)
    ELSE ResumeLoops(this, gen, screens)

\* What a generator yields to a caller that consumes it to its end and runs
\* nothing else meanwhile; r is what the first next() returned
RECURSIVE Consume(_, _)
Consume(r, screens) ==
    IF r.generator.done THEN << >>
    ELSE << r.result >> \o Consume(Resume(r.this, r.generator, screens), screens)

----------------------------------------------------------------------------
(* The state after construction.  The constructor copies Workspace.activities, *)
(* Workspace.desktops and Workspace.screens, whatever the host holds then.  *)

This ==
    [ desktops |-> desktops, objects |-> objects, kwinActivities |-> kwinActivities,
      kwinDesktops |-> kwinDesktops, kwinScreens |-> kwinScreens ]

\* the object's state becomes `this`
Becomes(this) ==
    /\ desktops' = this.desktops
    /\ objects' = this.objects
    /\ kwinActivities' = this.kwinActivities
    /\ kwinDesktops' = this.kwinDesktops
    /\ kwinScreens' = this.kwinScreens

Init ==
    /\ kwinActivities \in HostActivitySets
    /\ kwinDesktops \in HostDesktopSets
    /\ kwinScreens \in HostScreenSets
    /\ desktops = EmptyMap
    /\ objects = << >>
    /\ last = << "constructor",
                  NoArgs,
                  Undefined >>
    /\ generator = NoGenerator

----------------------------------------------------------------------------
(* Operations.  The host's state (Workspace.activities, Workspace.desktops, *)
(* Workspace.screens) is read by the update operations only, at the moment  *)
(* they run: it is their input, and the host may hold any set by then.      *)

GetDesktop(activity, kwinDesktop, screen) ==
    LET r == getDesktop(This, activity, kwinDesktop, screen)
    IN  /\ Len(r.this.objects) <= MaxDesktops
        /\ Becomes(r.this)
        /\ last' = << "getDesktop",
                  << activity, kwinDesktop, screen >>,
                  r.result >>
        /\ UNCHANGED generator

UpdateActivities(workspaceActivities) ==
    /\ Becomes(updateActivities(This, workspaceActivities))
    /\ last' = << "updateActivities",
                  << workspaceActivities >>,
                  Undefined >>
    /\ UNCHANGED generator

UpdateDesktops(workspaceDesktops) ==
    /\ Becomes(updateDesktops(This, workspaceDesktops))
    /\ last' = << "updateDesktops",
                  << workspaceDesktops >>,
                  Undefined >>
    /\ UNCHANGED generator

UpdateScreens(workspaceScreens) ==
    /\ Becomes(updateScreens(This, workspaceScreens))
    /\ last' = << "updateScreens",
                  << workspaceScreens >>,
                  Undefined >>
    /\ UNCHANGED generator

Destroy ==
    /\ \A k \in DOMAIN desktops : objects[desktops[k]].destroyCalls < MaxDestroyCalls
    /\ Becomes(destroy(This))
    /\ last' = << "destroy",
                  NoArgs,
                  Undefined >>
    /\ UNCHANGED generator

\* The arrays a caller passes to getDesktops: no element twice, no two
\* desktops with one id
ActivityArrays == UNION { Orders(A) : A \in HostActivitySets }
DesktopArrays == UNION { Orders(D) : D \in HostDesktopSets }

GetDesktops(activities, kwinDesktopsArg) ==
    /\ \E oa \in (IF Len(activities) > 0 THEN {<< >>} ELSE Orders(kwinActivities)),
          od \in (IF Len(kwinDesktopsArg) > 0 THEN {<< >>} ELSE Orders(kwinDesktops)),
          os \in Orders(kwinScreens) :
         last' = << "getDesktops",
                  << activities, kwinDesktopsArg >>,
                  getDesktops(This, activities, kwinDesktopsArg,
                               [activities |-> oa, desktops |-> od, screens |-> os]) >>
    /\ UNCHANGED << desktops, objects, kwinActivities, kwinDesktops, kwinScreens >>
    /\ UNCHANGED generator

\* What the host can answer for Workspace.currentActivity and
\* Workspace.currentDesktop
CurrentSelections == [ currentActivity : ActivityIds, currentDesktop : KwinDesktopObjects ]

\* The clients: kwinClient.activities, kwinClient.desktops, kwinClient.output
KwinClients == [ activities : ActivityArrays, desktops : DesktopArrays, output : OutputObjects ]

\* A next() has run and has returned r; `first` says whether it was the
\* first next() of its generator object
Pulled(r, first) ==
    /\ Becomes(r.this)
    /\ generator' = r.generator
    /\ last' = << "next",
                  << r.generator.kind, first >>,
                  r.result >>

\* The call of a generator function together with the first next() of the
\* object it returns (the call itself reads and writes nothing)
GetAllDesktopsFirst == Pulled(getAllDesktopsStart(This), TRUE)

GetDesktopsOnCurrentDesktopAndActivityFirst(workspace) ==
    \E os \in Orders(kwinScreens) :
        Pulled(getDesktopsOnCurrentDesktopAndActivityStart(This, workspace, os), TRUE)

GetDesktopsFirst(activities, kwinDesktopsArg) ==
    \E oa \in (IF Len(activities) > 0 THEN {<< >>} ELSE Orders(kwinActivities)),
       od \in (IF Len(kwinDesktopsArg) > 0 THEN {<< >>} ELSE Orders(kwinDesktops)),
       os \in Orders(kwinScreens) :
        Pulled(getDesktopsStart(This, activities, kwinDesktopsArg,
                                [activities |-> oa, desktops |-> od, screens |-> os]),
               TRUE)

GetDesktopsForClientFirst(kwinClient) ==
    \E oa \in (IF Len(kwinClient.activities) > 0 THEN {<< >>} ELSE Orders(kwinActivities)),
       od \in (IF Len(kwinClient.desktops) > 0 THEN {<< >>} ELSE Orders(kwinDesktops)),
       os \in Orders(kwinScreens) :
        Pulled(getDesktopsForClientStart(This, kwinClient,
                                [activities |-> oa, desktops |-> od, screens |-> os]),
               TRUE)

\* A further next() of the generator object in the caller's hands
GeneratorNext ==
    /\ ~generator.done
    /\ \E os \in Orders(kwinScreens) : Pulled(Resume(This, generator, os), FALSE)

GetDesktopForClient(kwinClient) ==
    LET r == getDesktopForClient(This, kwinClient)
    IN  /\ Len(r.this.objects) <= MaxDesktops
        /\ Becomes(r.this)
        /\ last' = << "getDesktopForClient",
                  << kwinClient >>,
                  r.result >>
        /\ UNCHANGED generator

Resolve ==
    \E activity \in ActivityIds, kwinDesktop \in KwinDesktopObjects,
       screen \in OutputObjects : GetDesktop(activity, kwinDesktop, screen)

Reconcile ==
    \/ \E workspaceActivities \in HostActivitySets : UpdateActivities(workspaceActivities)
    \/ \E workspaceDesktops \in HostDesktopSets : UpdateDesktops(workspaceDesktops)
    \/ \E workspaceScreens \in HostScreenSets : UpdateScreens(workspaceScreens)

Query ==
    \E activities \in ActivityArrays, kwinDesktopsArg \in DesktopArrays :
        GetDesktops(activities, kwinDesktopsArg)

\* Lookups and reconciliation
Next == Resolve \/ Reconcile

Spec == Init /\ [][Next]_vars

\* ... with the full teardown
NextTeardown == Resolve \/ Reconcile \/ Destroy

SpecTeardown == Init /\ [][NextTeardown]_vars

\* Lookups and the multi-value query
NextQuery == Resolve \/ Query

SpecQuery == Init /\ [][NextQuery]_vars

\* getDesktopsOnCurrentDesktopAndActivity(), consumed to its end at once
GetDesktopsOnCurrentDesktopAndActivity(workspace) ==
    /\ \E os \in Orders(kwinScreens) :
         last' = << "getDesktopsOnCurrentDesktopAndActivity",
                  << workspace >>,
                  Consume(getDesktopsOnCurrentDesktopAndActivityStart(This, workspace, os),
                          os) >>
    /\ UNCHANGED << desktops, objects, kwinActivities, kwinDesktops, kwinScreens >>
    /\ UNCHANGED generator

QuerySelection ==
    \E workspace \in CurrentSelections : GetDesktopsOnCurrentDesktopAndActivity(workspace)

\* Lookups and the query for the current selection
NextSelection == Resolve \/ QuerySelection

SpecSelection == Init /\ [][NextSelection]_vars

\* The key function on its own.  Activity ids, desktop ids and screen names
\* are strings the host chooses; getDesktopKey takes them as they are.
KeyStrings == { "x", "x|x", "y" }

GetDesktopKey(activity, kwinDesktop, screen) ==
    /\ last' = << "getDesktopKey",
                  << activity, kwinDesktop, screen >>,
                  getDesktopKey(activity, kwinDesktop, screen) >>
    /\ UNCHANGED << desktops, objects, kwinActivities, kwinDesktops, kwinScreens >>
    /\ UNCHANGED generator

NextKey ==
    \E activity \in KeyStrings, id \in KeyStrings, name \in KeyStrings :
        GetDesktopKey(activity, [ref |-> 1, id |-> id], [ref |-> 1, name |-> name])

SpecKey == Init /\ [][NextKey]_vars

\* Lookups by coordinate and by client
ResolveForClient == \E kwinClient \in KwinClients : GetDesktopForClient(kwinClient)

NextClient == Resolve \/ ResolveForClient

\* (neither lookup reads the snapshots: one construction is enough)
InitClient ==
    /\ Init
    /\ kwinActivities = ActivityIds
    /\ kwinDesktops = { d \in KwinDesktopObjects : d.ref # 2 }
    /\ kwinScreens = { s \in OutputObjects : s.ref # 2 }

SpecClient == InitClient /\ [][NextClient]_vars

\* Lookups, reconciliation and the generators, a next() at a time, in a host
\* with one activity, a desktop the filter works on, a desktop it rejects and
\* two screens
IterationActivities == {"a"}
IterationDesktops == { d \in KwinDesktopObjects : d.ref # 2 }
IterationScreens == { s \in OutputObjects : s.ref # 2 }
IterationActivityArrays == UNION { Orders(A) : A \in SUBSET IterationActivities }
IterationDesktopArrays == UNION { Orders(D) : D \in SUBSET IterationDesktops }

InitIterate ==
    /\ Init
    /\ kwinActivities \subseteq IterationActivities
    /\ kwinDesktops \subseteq IterationDesktops
    /\ kwinScreens \subseteq IterationScreens

ResolveIterating ==
    \E activity \in IterationActivities, kwinDesktop \in IterationDesktops,
       screen \in IterationScreens : GetDesktop(activity, kwinDesktop, screen)

ReconcileIterating ==
    \/ \E workspaceActivities \in SUBSET IterationActivities :
           UpdateActivities(workspaceActivities)
    \/ \E workspaceDesktops \in SUBSET IterationDesktops : UpdateDesktops(workspaceDesktops)
    \/ \E workspaceScreens \in SUBSET IterationScreens : UpdateScreens(workspaceScreens)

Iterate ==
    \/ GetAllDesktopsFirst
    \/ \E workspace \in [ currentActivity : IterationActivities,
                           currentDesktop : IterationDesktops ] :
           GetDesktopsOnCurrentDesktopAndActivityFirst(workspace)
    \/ \E activities \in IterationActivityArrays,
          kwinDesktopsArg \in IterationDesktopArrays :
           GetDesktopsFirst(activities, kwinDesktopsArg)
    \/ \E kwinClient \in [ activities : IterationActivityArrays,
                            desktops : IterationDesktopArrays,
                            output : IterationScreens ] :
           GetDesktopsForClientFirst(kwinClient)
    \/ GeneratorNext

NextIterate == ResolveIterating \/ ReconcileIterating \/ Iterate

SpecIterate == InitIterate /\ [][NextIterate]_vars

----------------------------------------------------------------------------
(* Vocabulary of the properties *)

\* The keys whose activity / desktop-id / screen-name component is v
KeysOfActivity(v) == { v \o "|" \o i \o "|" \o n : i \in DesktopIds, n \in ScreenNames }
KeysOfDesktopId(v) == { a \o "|" \o v \o "|" \o n : a \in ActivityIds, n \in ScreenNames }
KeysOfScreenName(v) == { a \o "|" \o i \o "|" \o v : a \in ActivityIds, i \in DesktopIds }

IdsOf(D) == { d.id : d \in D }
NamesOf(S) == { s.name : s \in S }

\* What the host can hold at one moment
Workspaces ==
    [ activities : HostActivitySets, desktops : HostDesktopSets, screens : HostScreenSets ]

\* The keys of the coordinates that are valid in workspace ws
KeysIn(ws) ==
    { a \o "|" \o i \o "|" \o n :
        a \in ws.activities, i \in IdsOf(ws.desktops), n \in NamesOf(ws.screens) }

\* A step leaves the entries at the keys K alone: same object, no destroy()
Unaffected(K) ==
    \A k \in K :
        /\ k \in DOMAIN desktops'
        /\ desktops'[k] = desktops[k]
        /\ objects'[desktops[k]].destroyCalls = objects[desktops[k]].destroyCalls

Live(i) == objects[i].destroyCalls = 0

----------------------------------------------------------------------------
(* C1: uniqueness *)

\* (C1, first part, as a state predicate) No two Desktop objects that have
\* been constructed and not destroyed belong to one coordinate.
AtMostOneLivePerCoordinate ==
    \A i, j \in DOMAIN objects :
        (Live(i) /\ Live(j) /\ objects[i].coord = objects[j].coord) => i = j

\* (C1, second part, as a step property) A getDesktop call that returns a
\* Desktop returns the object registered for its key, an object constructed
\* for exactly its coordinate, and leaves every registered key with the
\* object it had: so however many getDesktop calls follow one another, those
\* with one triple all return one object.
ResolveReturnsTheRegistered ==
    LastOp' = "getDesktop" /\ LastResult' # Undefined =>
        LET key == getDesktopKey(LastArgs'[1], LastArgs'[2], LastArgs'[3])
        IN  /\ key \in DOMAIN desktops' /\ desktops'[key] = LastResult'
            /\ objects'[LastResult'].coord
                 = << LastArgs'[1], LastArgs'[2].id, LastArgs'[3].name >>
            /\ key \in DOMAIN desktops => LastResult' = desktops[key]
            /\ \A k \in DOMAIN desktops : k \in DOMAIN desktops' /\ desktops'[k] = desktops[k]

\* C1: for getDesktop calls with the same (activity, desktop, screen), all
\* results that are not undefined are the same Desktop object, and in every
\* state at most one constructed and not destroyed object exists per
\* coordinate.
C1_Uniqueness ==
    /\ [] AtMostOneLivePerCoordinate
    /\ [][ResolveReturnsTheRegistered]_vars

\* A getDesktop call has returned an object that an earlier call constructed:
\* a younger object exists.
C1_Witness ==
    /\ LastOp = "getDesktop"
    /\ LastResult # Undefined
    /\ LastResult < Len(objects)
    /\ Live(LastResult)

----------------------------------------------------------------------------
(* C8: filter gating *)

\* C8: a getDesktop call for a desktop the filter rejects returns undefined,
\* whatever the activity and the screen, and leaves the entries as they were
\* (no Desktop is constructed, none is registered).
C8_FilterGating ==
    [][ (LastOp' = "getDesktop" /\ ~shouldWorkOnDesktop(LastArgs'[2])) =>
            /\ LastResult' = Undefined
            /\ desktops' = desktops
            /\ objects' = objects ]_vars

\* getDesktop has been called for a rejected desktop while the registry held
\* an entry.
C8_Witness ==
    /\ LastOp = "getDesktop"
    /\ ~shouldWorkOnDesktop(LastArgs[2])
    /\ LastResult = Undefined
    /\ DOMAIN desktops # {}

----------------------------------------------------------------------------
(* C2: reconciliation removes everything invalidated *)

\* C2: when an update operation has run, no entry is left whose component of
\* that dimension is a value missing from the host's set the operation read
\* (which is the new snapshot).
C2_RemovesInvalidated ==
    /\ LastOp = "updateActivities" =>
         \A v \in ActivityIds \ LastArgs[1] : DOMAIN desktops \cap KeysOfActivity(v) = {}
    /\ LastOp = "updateDesktops" =>
         \A v \in DesktopIds \ IdsOf(LastArgs[1]) :
             DOMAIN desktops \cap KeysOfDesktopId(v) = {}
    /\ LastOp = "updateScreens" =>
         \A v \in ScreenNames \ NamesOf(LastArgs[1]) :
             DOMAIN desktops \cap KeysOfScreenName(v) = {}

----------------------------------------------------------------------------
(* C3: reconciliation preserves the rest *)

\* C3: an update operation leaves alone (same object registered, no destroy())
\* every entry whose component of that dimension is not a value the host has
\* removed, that is a value of the old snapshot missing from the host's set.
C3_PreservesTheRest ==
    [][ /\ LastOp' = "updateActivities" =>
             Unaffected(DOMAIN desktops
                 \ UNION { KeysOfActivity(v) : v \in kwinActivities \ LastArgs'[1] })
        /\ LastOp' = "updateDesktops" =>
             Unaffected(DOMAIN desktops
                 \ UNION { KeysOfDesktopId(v) :
                             v \in IdsOf(kwinDesktops) \ IdsOf(LastArgs'[1]) })
        /\ LastOp' = "updateScreens" =>
             Unaffected(DOMAIN desktops
                 \ UNION { KeysOfScreenName(v) :
                             v \in NamesOf(kwinScreens) \ NamesOf(LastArgs'[1]) })
      ]_vars

----------------------------------------------------------------------------
(* C4: reconciliation never destroys a live coordinate *)

\* C4: whatever the host holds (ws) when updateDesktops or updateScreens
\* runs, an entry whose activity, desktop id and screen name are all in the
\* host's sets is left alone.
C4_LiveCoordinateKept ==
    [][ \A ws \in Workspaces :
          /\ (LastOp' = "updateDesktops" /\ LastArgs'[1] = ws.desktops) =>
                 Unaffected(DOMAIN desktops \cap KeysIn(ws))
          /\ (LastOp' = "updateScreens" /\ LastArgs'[1] = ws.screens) =>
                 Unaffected(DOMAIN desktops \cap KeysIn(ws))
      ]_vars

----------------------------------------------------------------------------
(* C5: teardown completeness *)

\* C5: destroy() invokes destroy() on every registered Desktop, so that each
\* has received exactly one invocation, and leaves the registry empty.
C5_TeardownComplete ==
    [][ LastOp' = "destroy" =>
            /\ \A k \in DOMAIN desktops : objects'[desktops[k]].destroyCalls = 1
            /\ DOMAIN desktops' = {} ]_vars

----------------------------------------------------------------------------
(* C6: destroy once *)

\* C6: through every sequence of getDesktop, update and destroy() calls no
\* Desktop object receives a second destroy(), and a key leaves the registry
\* only with an object whose destroy() has been invoked.
C6_DestroyOnce ==
    [][ /\ \A i \in DOMAIN objects' : objects'[i].destroyCalls <= 1
        /\ \A k \in DOMAIN desktops :
             k \notin DOMAIN desktops' => objects'[desktops[k]].destroyCalls >= 1
      ]_vars

----------------------------------------------------------------------------
(* C7: no use after destruction *)

\* C7: no key of the registry maps to a Desktop whose destroy() has been
\* invoked, and getDesktop never returns such an object.
C7_NoUseAfterDestroy ==
    /\ \A k \in DOMAIN desktops : Live(desktops[k])
    /\ (LastOp = "getDesktop" /\ LastResult # Undefined) => Live(LastResult)

----------------------------------------------------------------------------
(* C9: the multi-value query *)

\* What the claim has getDesktops(activities, kwinDesktopsArg) yield: the
\* entries of (activities, or all known ones if empty) x (desktops, or
\* all known ones if empty) x (all known screens)
MatchingEntries(activities, kwinDesktopsArg) ==
    LET A == IF Len(activities) > 0 THEN Range(activities) ELSE kwinActivities
        D == IF Len(kwinDesktopsArg) > 0 THEN Range(kwinDesktopsArg) ELSE kwinDesktops
        keys == { getDesktopKey(a, d, s) : a \in A, d \in D, s \in kwinScreens }
    IN  { desktops[k] : k \in keys \cap DOMAIN desktops }

\* C9: getDesktops yields exactly the entries that exist in the expanded
\* product.
C9_MatchingYieldsProduct ==
    LastOp = "getDesktops" =>
        Range(LastResult) = MatchingEntries(LastArgs[1], LastArgs[2])

----------------------------------------------------------------------------
(* C10: the three reconciliation passes commute *)

\* The three update operations in the order p (a sequence of "a", "d", "s"),
\* when the host holds ws
RECURSIVE UpdatesInOrder(_, _, _)
UpdatesInOrder(this, ws, p) ==
    IF p = << >> THEN this
    ELSE LET next == IF Head(p) = "a" THEN updateActivities(this, ws.activities)
                     ELSE IF Head(p) = "d" THEN updateDesktops(this, ws.desktops)
                     ELSE updateScreens(this, ws.screens)
         IN  UpdatesInOrder(next, ws, Tail(p))

\* C10: from every reachable state and for every state of the host, the six
\* orders of the three update operations end with the same entries, the same
\* destroy() invocations and the same snapshots.
C10_PassesCommute ==
    \A ws \in Workspaces :
        \A p, q \in Orders({"a", "d", "s"}) :
            UpdatesInOrder(This, ws, p) = UpdatesInOrder(This, ws, q)

----------------------------------------------------------------------------
(* C11: idempotent reconciliation *)

\* C11: when an update operation has run while the host held some set, the
\* same operation run again while the host still holds that set is a no-op:
\* no destroy() is invoked, and the entries and the three snapshots stay as
\* they are.
C11_SecondCallNoOp ==
    /\ LastOp = "updateActivities" => updateActivities(This, LastArgs[1]) = This
    /\ LastOp = "updateDesktops" => updateDesktops(This, LastArgs[1]) = This
    /\ LastOp = "updateScreens" => updateScreens(This, LastArgs[1]) = This

\* updateActivities has destroyed a Desktop and has left another one
\* registered, which a second call could reach.
C11_Witness ==
    /\ LastOp = "updateActivities"
    /\ \E i \in DOMAIN objects : ~Live(i)
    /\ \E k \in DOMAIN desktops : Live(desktops[k])
    /\ \E i \in DOMAIN objects : ~Live(i) /\ objects[i].coord[1] \notin LastArgs[1]

----------------------------------------------------------------------------
(* C12: non-creating iteration *)

\* C12: no next() of a generator of getAllDesktops,
\* getDesktopsOnCurrentDesktopAndActivity, getDesktops or getDesktopsForClient
\* adds an entry: it leaves the registry, the Desktop objects and the
\* snapshots as they were, however far the caller consumes the generator.
C12_IterationCreatesNothing ==
    [][ LastOp' = "next" =>
            /\ desktops' = desktops
            /\ objects' = objects
            /\ << kwinActivities', kwinDesktops', kwinScreens' >>
                 = << kwinActivities, kwinDesktops, kwinScreens >> ]_vars

\* A generator of getDesktops, partly consumed, has passed a coordinate
\* without entry (screen "S") and has yielded the entry of the next one.
C12_Witness ==
    /\ LastOp = "next"
    /\ generator.kind = "getDesktops"
    /\ ~generator.done
    /\ generator.pairs # << >>
    /\ LastResult # Undefined
    /\ objects[LastResult].coord[3] = "T"
    /\ Cardinality(kwinScreens) = 2
    /\ Cardinality(DOMAIN desktops) = 1

----------------------------------------------------------------------------
(* C13: the lookup for a client *)

\* C13: getDesktopForClient returns undefined and leaves the entries and the
\* Desktop objects as they were when the client's activities or its desktops
\* do not have exactly one element; when both have one, it returns what
\* getDesktop returns for (activities[0], desktops[0], output) in the state
\* it is called in, with the effect of that call.
C13_ClientLookup ==
    [][ LastOp' = "getDesktopForClient" =>
          LET kwinClient == LastArgs'[1]
          IN  IF Len(kwinClient.activities) # 1 \/ Len(kwinClient.desktops) # 1
              THEN /\ LastResult' = Undefined
                   /\ desktops' = desktops
                   /\ objects' = objects
              ELSE LET r == getDesktop(This, kwinClient.activities[1],
                                       kwinClient.desktops[1], kwinClient.output)
                   IN  /\ LastResult' = r.result
                       /\ desktops' = r.this.desktops
                       /\ objects' = r.this.objects ]_vars

\* getDesktopForClient has returned undefined for a client on two activities
\* and one desktop the filter works on, while the registry held an entry.
C13_Witness ==
    /\ LastOp = "getDesktopForClient"
    /\ Len(LastArgs[1].activities) = 2
    /\ Len(LastArgs[1].desktops) = 1
    /\ shouldWorkOnDesktop(LastArgs[1].desktops[1])
    /\ LastResult = Undefined
    /\ DOMAIN desktops # {}

----------------------------------------------------------------------------
(* C14: creation validity *)

\* C14 as stated: getDesktop constructs a Desktop only for a coordinate whose
\* activity, desktop id and screen name are in the snapshots.  (The host's
\* sets are the snapshots whenever the host has not changed since the
\* constructor or the last update operation ran, so a construction outside
\* the snapshots in such a run is outside the host's sets too.)
C14_CreatedWithinSnapshots ==
    [][ (LastOp' = "getDesktop" /\ Len(objects') > Len(objects)) =>
            /\ LastArgs'[1] \in kwinActivities
            /\ LastArgs'[2].id \in IdsOf(kwinDesktops)
            /\ LastArgs'[3].name \in NamesOf(kwinScreens) ]_vars

\* Every registered key is the key of the coordinate its Desktop was
\* constructed for, and its desktop is one the filter works on.
EntriesAreFilteredCoordinates ==
    \A k \in DOMAIN desktops :
        LET coord == objects[desktops[k]].coord
        IN  /\ k = coord[1] \o "|" \o coord[2] \o "|" \o coord[3]
            /\ coord[2] \in FilteredDesktopIds

\* A Desktop is constructed only by a getDesktop call whose desktop passes
\* the filter: one Desktop, for the coordinate of the call, registered at its
\* key.
CreatedByFilteredResolve ==
    Len(objects') > Len(objects) =>
        /\ LastOp' = "getDesktop"
        /\ shouldWorkOnDesktop(LastArgs'[2])
        /\ Len(objects') = Len(objects) + 1
        /\ objects'[Len(objects')].coord
             = << LastArgs'[1], LastArgs'[2].id, LastArgs'[3].name >>
        /\ LET key == getDesktopKey(LastArgs'[1], LastArgs'[2], LastArgs'[3])
           IN  key \in DOMAIN desktops' /\ desktops'[key] = Len(objects')

\* C14 as amended: every key present in the registry was created by a
\* getDesktop call for exactly its coordinate whose desktop passed the
\* filter; that is all getDesktop requires of a coordinate.
C14_CreationByFilteredResolve ==
    /\ [] EntriesAreFilteredCoordinates
    /\ [][CreatedByFilteredResolve]_vars

\* getDesktop has just constructed a Desktop for a coordinate none of whose
\* components is in the snapshots.
C14_Witness ==
    /\ LastOp = "getDesktop"
    /\ LastResult = Len(objects)
    /\ LastResult # Undefined
    /\ getDesktopKey(LastArgs[1], LastArgs[2], LastArgs[3]) \in DOMAIN desktops
    /\ LastArgs[1] \notin kwinActivities
    /\ LastArgs[2].id \notin IdsOf(kwinDesktops)
    /\ LastArgs[3].name \notin NamesOf(kwinScreens)

----------------------------------------------------------------------------
(* C15: key injectivity *)

\* C15: the key getDesktopKey has built for (activity, desktop.id,
\* screen.name) is the key of another triple of strings if and only if the
\* three components are equal, also for strings that contain "|".
C15_KeyInjective ==
    LastOp = "getDesktopKey" =>
        \A activity \in KeyStrings, id \in KeyStrings, name \in KeyStrings :
            getDesktopKey(activity, [ref |-> 1, id |-> id], [ref |-> 1, name |-> name])
              = LastResult
            <=> << activity, id, name >>
                  = << LastArgs[1], LastArgs[2].id, LastArgs[3].name >>

----------------------------------------------------------------------------
(* C16: re-creation after reconciliation *)

\* C16: a getDesktop call that returns a Desktop never returns one an update
\* operation has destroyed; when the coordinate of the call had a Desktop
\* that was destroyed and removed, the call constructs a new Desktop,
\* registers it at the key and returns it.
C16_RecreatedAfterReconcile ==
    [][ (LastOp' = "getDesktop" /\ LastResult' # Undefined) =>
          LET key == getDesktopKey(LastArgs'[1], LastArgs'[2], LastArgs'[3])
              coord == << LastArgs'[1], LastArgs'[2].id, LastArgs'[3].name >>
              destroyed == { i \in DOMAIN objects :
                               objects[i].coord = coord /\ ~Live(i) }
          IN  /\ LastResult' \notin destroyed
              /\ objects'[LastResult'].destroyCalls = 0
              /\ (destroyed # {} /\ key \notin DOMAIN desktops) =>
                    /\ LastResult' = Len(objects) + 1
                    /\ Len(objects') = Len(objects) + 1
                    /\ objects'[LastResult'].coord = coord
                    /\ desktops'[key] = LastResult'
                    /\ \A i \in destroyed :
                         i \notin { desktops'[k] : k \in DOMAIN desktops' } ]_vars

\* getDesktop has returned a second Desktop for the coordinate of a first
\* one, which an update operation had destroyed.
C16_Witness ==
    /\ LastOp = "getDesktop"
    /\ LastResult = 2
    /\ Len(objects) >= 2
    /\ objects[1].coord = objects[2].coord
    /\ objects[1].destroyCalls = 1
    /\ Live(2)
    /\ desktops[getDesktopKey(LastArgs[1], LastArgs[2], LastArgs[3])] = 2

----------------------------------------------------------------------------
(* C17: the effect of getDesktop *)

\* C17: a getDesktop call for a desktop the filter works on, when the key is
\* registered, returns the registered Desktop and changes neither the
\* entries nor the Desktop objects (none constructed, none destroyed) nor
\* the snapshots; when the key is not registered, it adds the one entry at
\* that key, with a Desktop just constructed, and changes nothing else.
C17_ResolveEffect ==
    [][ (LastOp' = "getDesktop" /\ shouldWorkOnDesktop(LastArgs'[2])) =>
          LET key == getDesktopKey(LastArgs'[1], LastArgs'[2], LastArgs'[3])
          IN  /\ << kwinActivities', kwinDesktops', kwinScreens' >>
                   = << kwinActivities, kwinDesktops, kwinScreens >>
              /\ IF key \in DOMAIN desktops
                 THEN /\ LastResult' = desktops[key]
                      /\ desktops' = desktops
                      /\ objects' = objects
                 ELSE /\ DOMAIN desktops' = DOMAIN desktops \cup {key}
                      /\ \A k \in DOMAIN desktops : desktops'[k] = desktops[k]
                      /\ desktops'[key] = Len(objects) + 1
                      /\ LastResult' = Len(objects) + 1
                      /\ Len(objects') = Len(objects) + 1
                      /\ \A i \in DOMAIN objects : objects'[i] = objects[i]
                      /\ objects'[Len(objects')].destroyCalls = 0 ]_vars

\* getDesktop has added a second entry beside a first one, which is still
\* registered and not destroyed.
C17_Witness ==
    /\ LastOp = "getDesktop"
    /\ LastResult = 2
    /\ Cardinality(DOMAIN desktops) = 2
    /\ \A k \in DOMAIN desktops : Live(desktops[k])
    /\ desktops[getDesktopKey(LastArgs[1], LastArgs[2], LastArgs[3])] = 2

----------------------------------------------------------------------------
(* C18: the entries of the current selection *)

\* The entries that exist for (current activity, current desktop, s), s a
\* screen of the snapshot this.kwinScreens
SelectionEntries(workspace) ==
    LET keys == { getDesktopKey(workspace.currentActivity, workspace.currentDesktop, s) :
                    s \in kwinScreens }
    IN  { desktops[k] : k \in keys \cap DOMAIN desktops }

\* C18: getDesktopsOnCurrentDesktopAndActivity yields exactly those entries,
\* each once; a screen without entry contributes nothing.
C18_SelectionYieldsEntries ==
    LastOp = "getDesktopsOnCurrentDesktopAndActivity" =>
        /\ Range(LastResult) = SelectionEntries(LastArgs[1])
        /\ Len(LastResult) = Cardinality(SelectionEntries(LastArgs[1]))

\* With two screens in the snapshot and two entries in the registry, the
\* generator has yielded the one entry of the current selection: it has
\* passed the screen without entry and has left out the entry of the other
\* activity.
C18_Witness ==
    /\ LastOp = "getDesktopsOnCurrentDesktopAndActivity"
    /\ Len(LastResult) = 1
    /\ Cardinality(kwinScreens) = 2
    /\ Cardinality(DOMAIN desktops) = 2
    /\ \E k \in DOMAIN desktops :
         objects[desktops[k]].coord[1] # LastArgs[1].currentActivity

----------------------------------------------------------------------------
(* C19: snapshot refresh *)

\* C19: when an update operation returns, the snapshot of its dimension is
\* the set the host held when the operation read it, the values the host has
\* added included, and the snapshots of the other two dimensions are as
\* before.
C19_SnapshotRefreshed ==
    [][ /\ LastOp' = "updateActivities" =>
             /\ kwinActivities' = LastArgs'[1]
             /\ kwinDesktops' = kwinDesktops /\ kwinScreens' = kwinScreens
        /\ LastOp' = "updateDesktops" =>
             /\ kwinDesktops' = LastArgs'[1]
             /\ kwinActivities' = kwinActivities /\ kwinScreens' = kwinScreens
        /\ LastOp' = "updateScreens" =>
             /\ kwinScreens' = LastArgs'[1]
             /\ kwinActivities' = kwinActivities /\ kwinDesktops' = kwinDesktops
      ]_vars

\* updateDesktops has run for a host that replaced the desktop object with
\* id "1": the entry of the old object is destroyed, the new object is in
\* the snapshot.
C19_Witness ==
    /\ LastOp = "updateDesktops"
    /\ kwinDesktops = LastArgs[1]
    /\ \E d \in kwinDesktops : d.id = "1"
    /\ DOMAIN desktops = {}
    /\ \E i \in DOMAIN objects : ~Live(i)
    /\ kwinActivities # {} /\ kwinScreens # {}

----------------------------------------------------------------------------
(* C20: update operations between two next() *)

\* C20: whatever getDesktop and update calls run between the next() calls of
\* a generator of getAllDesktops, getDesktopsOnCurrentDesktopAndActivity,
\* getDesktops or getDesktopsForClient, a Desktop that a next() yields is, when
\* it is yielded, registered in this.desktops and has had no destroy().
C20_YieldedIsRegistered ==
    [][ (LastOp' = "next" /\ LastResult' # Undefined) =>
            /\ LastResult' \in { desktops'[k] : k \in DOMAIN desktops' }
            /\ objects'[LastResult'].destroyCalls = 0 ]_vars

\* A later next() of getAllDesktops has yielded the second Desktop after an
\* update operation destroyed the first one, which the generator had yielded
\* before.
C20_Witness ==
    /\ LastOp = "next"
    /\ LastArgs = << "getAllDesktops", FALSE >>
    /\ LastResult = 2
    /\ generator.index = 2
    /\ objects[1].destroyCalls = 1
    /\ Live(2)

====
